---- MODULE Spec2Model ----
(***************************************************************************)
(* SmmControl2Dxe (QemuQ35Pkg): the DXE driver that configures and locks   *)
(* the ICH9 SMI_EN register and then publishes EFI_SMM_CONTROL2_PROTOCOL   *)
(* (Trigger / Clear).                                                      *)
(*                                                                         *)
(* A 32-bit register value is represented by the set of the positions of   *)
(* its set bits, so  a | b  is  a \cup b  and  a & ~b  is  a \ b.  Only the *)
(* bit positions in SmiEnBits are tracked.                                 *)
(*                                                                         *)
(* An OPTIONAL UINT8 pointer is a sequence: << >> is NULL, <<b>> points to *)
(* the byte b.                                                             *)
(***************************************************************************)
EXTENDS Integers, Sequences, FiniteSets, TLC

(* ------------------------------------------------------------------ *)
(* Bounds of the model                                                 *)
(* ------------------------------------------------------------------ *)

\* Number of Trigger/Clear calls a run may make after publication.
MaxCalls == 2

(* ------------------------------------------------------------------ *)
(* Chipset constants (IndustryStandard/Q35MchIch9.h)                   *)
(* ------------------------------------------------------------------ *)

\* ICH9_SMI_EN_GBL_SMI_EN is BIT0, ICH9_SMI_EN_APMC_EN is BIT5.
ICH9_SMI_EN_GBL_SMI_EN == {0}

ICH9_SMI_EN_APMC_EN == {5}

\* The bits of SMI_EN the model tracks: the two above and one bystander
\* (BIT1, EOS) that the driver never names.
SmiEnBits == {0, 1, 5}

\* APM control (0xB2) and status/scratch (0xB3) IO ports.
ICH9_APM_CNT == 178

ICH9_APM_STS == 179

\* LPC config-space offsets of PMBASE (0x40) and GEN_PMCON_1 (0xA0); the
\* SMI_LOCK bit of GEN_PMCON_1 is BIT4.
ICH9_PMBASE == 64

ICH9_GEN_PMCON_1 == 160

ICH9_GEN_PMCON_1_SMI_LOCK == {4}

\* Offset of SMI_EN from PMBASE (0x30).
ICH9_PMBASE_OFS_SMI_EN == 48

\* PMBASE is 128-byte aligned: ICH9_PMBASE_MASK keeps bits 15..7.
PmBaseAlign == 128

PmBaseLimit == 65536

\* x & ICH9_PMBASE_MASK
MaskPmBase(x) == ((x % PmBaseLimit) \div PmBaseAlign) * PmBaseAlign

\* Values the PMBASE config register may hold when the driver starts
\* (0x601 and 0xB001: an aligned base with the IO-space indicator bit set).
PmBaseRegValues == {1537, 45057}

(* ------------------------------------------------------------------ *)
(* Argument domains of the protocol calls                              *)
(* ------------------------------------------------------------------ *)

\* Execution contexts that may call the protocol.  DXE boot services run on
\* one processor, so the sequential specification uses only BootCallers.
Callers == {"bsp", "ap"}

BootCallers == {"bsp"}

\* CommandPort / DataPort: NULL, or a pointer to a byte.
CommandPortArgs == {<< >>, <<66>>}

DataPortArgs == {<< >>, <<23>>}

ActivationIntervals == {0, 1}

NoArgs == [op |-> "none"]

\* MAX_UINTN, the MinimumTriggerPeriod of mControl2 ("we don't support
\* periodic SMIs").  The value (2^64 - 1) is kept symbolic.
MAX_UINTN == "MAX_UINTN"

VARIABLES
  \* hardware
  pmbaseReg,        \* PCI config: ICH9_PMBASE
  smiEn,            \* IO: SMI_EN register
  smiLock,          \* PCI config: GEN_PMCON_1.SMI_LOCK
  apmSts,           \* IO 0xB3
  apmCnt,           \* IO 0xB2
  hwWritable,       \* bits of SMI_EN the hardware lets software change
  hwLockSticks,     \* whether a write of SMI_LOCK is retained
  hwLockProtects,   \* whether SMI_LOCK makes GBL_SMI_EN read-only
  \* platform configuration
  PcdStandaloneMmEnable,
  \* driver
  pc,               \* position of SmmControl2DxeEntryPoint
  mSmiEnable,
  mSmiFeatureNegotiation,
  SmiEnableVal,     \* local of the entry point
  Status,           \* local of the entry point ("none" while unassigned)
  retStatus,        \* what the entry point returned ("none" while it has not)
  published,        \* mControl2 is in the protocol database
  mControl2,        \* the protocol instance (its data field)
  \* callers of the published protocol
  tpc,              \* per caller: "idle", "WriteSts", "WriteCnt"
  targs,            \* per caller: the arguments of its current / last call
  tret,             \* per caller: the status its last call returned
  \* observation
  ioLog,            \* every register access, in order
  negotiateCalls,   \* calls of NegotiateSmiFeatures
  installCalls,     \* calls of InstallMultipleProtocolInterfaces
  tstart,           \* per caller: Len(ioLog) when its current / last call began
  calls             \* per caller: Trigger/Clear calls begun

hwVars == <<pmbaseReg, smiEn, smiLock, apmSts, apmCnt, hwWritable,
            hwLockSticks, hwLockProtects, PcdStandaloneMmEnable>>

drvVars == <<pc, mSmiEnable, mSmiFeatureNegotiation, SmiEnableVal, Status,
             retStatus, published, mControl2>>

callVars == <<tpc, targs, tret, tstart, calls>>

obsVars == <<ioLog, negotiateCalls, installCalls>>

vars == <<hwVars, drvVars, callVars, obsVars>>

(* ------------------------------------------------------------------ *)
(* Hardware                                                            *)
(* ------------------------------------------------------------------ *)

\* The bits of SMI_EN a write can change right now.
WritableNow ==
  hwWritable \ (IF smiLock /\ hwLockProtects THEN ICH9_SMI_EN_GBL_SMI_EN ELSE {})

\* The content of SMI_EN after IoWrite32 (mSmiEnable, val).
SmiEnAfterWrite(val) == (smiEn \ WritableNow) \cup (val \cap WritableNow)

\* What the hardware may let software change: either named bit may be
\* read-only; the bystander bit is only ever written back with the value
\* read, so its writability cannot be observed and is not varied.
HwWritableChoices ==
  {w \cup (SmiEnBits \ (ICH9_SMI_EN_APMC_EN \cup ICH9_SMI_EN_GBL_SMI_EN)) :
     w \in SUBSET (ICH9_SMI_EN_APMC_EN \cup ICH9_SMI_EN_GBL_SMI_EN)}

Access(who, op, port, val) == [by |-> who, op |-> op, port |-> port, val |-> val]

(* ------------------------------------------------------------------ *)
(* Initial state                                                       *)
(* ------------------------------------------------------------------ *)

Init ==
  /\ pmbaseReg \in PmBaseRegValues
  /\ smiEn \in SUBSET SmiEnBits
  /\ smiLock \in BOOLEAN
  /\ apmSts = 0
  /\ apmCnt = 0
  /\ hwWritable \in HwWritableChoices
  /\ hwLockSticks \in BOOLEAN
  /\ hwLockProtects \in BOOLEAN
  /\ PcdStandaloneMmEnable \in BOOLEAN
  /\ pc = "Start"
  /\ mSmiEnable = 0
  /\ mSmiFeatureNegotiation = FALSE
  /\ SmiEnableVal = {}
  /\ Status = "none"
  /\ retStatus = "none"
  /\ published = FALSE
  /\ mControl2 = [MinimumTriggerPeriod |-> MAX_UINTN]
  /\ tpc = [c \in Callers |-> "idle"]
  /\ targs = [c \in Callers |-> NoArgs]
  /\ tret = [c \in Callers |-> "none"]
  /\ ioLog = << >>
  /\ negotiateCalls = 0
  /\ installCalls = 0
  /\ tstart = [c \in Callers |-> 0]
  /\ calls = [c \in Callers |-> 0]

(* ------------------------------------------------------------------ *)
(* SmmControl2DxeEntryPoint                                            *)
(* ------------------------------------------------------------------ *)

Log(e) == ioLog' = Append(ioLog, e)

\* EFI_ERROR (s): the status has the error bit set.
EFI_ERROR(s) ==
  s \in {"EFI_DEVICE_ERROR", "EFI_INVALID_PARAMETER", "EFI_UNSUPPORTED",
         "EFI_OUT_OF_RESOURCES"}

\* What InstallMultipleProtocolInterfaces may return.
InstallStatuses == {"EFI_SUCCESS", "EFI_OUT_OF_RESOURCES", "EFI_INVALID_PARAMETER"}

\* PmBase = PciRead32 (ICH9_PMBASE) & ICH9_PMBASE_MASK;
\* mSmiEnable = PmBase + ICH9_PMBASE_OFS_SMI_EN
SmiEnableAddress(pmbase) == MaskPmBase(pmbase) + ICH9_PMBASE_OFS_SMI_EN

\* Variant: a pre-set APMC_EN alone is fatal, whatever the platform and
\* GBL_SMI_EN.
LacksSmiWheneverPreset(val, standaloneMm) ==
  (val \cap ICH9_SMI_EN_APMC_EN) # {}

\* Variant: the GBL_SMI_EN test inverted (!= 0 for == 0).
LacksSmiGblSet(val, standaloneMm) ==
  /\ (val \cap ICH9_SMI_EN_APMC_EN) # {}
  /\ standaloneMm
  /\ (val \cap ICH9_SMI_EN_GBL_SMI_EN) # {}

\* APMC_EN is pre-set, the platform is a Standalone MM one, and GBL_SMI_EN
\* is clear: "this Q35 implementation lacks SMI".
LacksSmi(val, standaloneMm) ==
  /\ (val \cap ICH9_SMI_EN_APMC_EN) # {}
  /\ standaloneMm
  /\ (val \cap ICH9_SMI_EN_GBL_SMI_EN) = {}

\* Variant: the snapshot is overwritten (=) instead of ORed into (|=).
EnableValueOverwrite(val) == ICH9_SMI_EN_APMC_EN \cup ICH9_SMI_EN_GBL_SMI_EN

\* SmiEnableVal |= ICH9_SMI_EN_APMC_EN | ICH9_SMI_EN_GBL_SMI_EN
EnableValue(val) == val \cup ICH9_SMI_EN_APMC_EN \cup ICH9_SMI_EN_GBL_SMI_EN

\* Variant: the probe clears APMC_EN as well.
ProbeValueClearsBoth(val) ==
  val \ (ICH9_SMI_EN_GBL_SMI_EN \cup ICH9_SMI_EN_APMC_EN)

\* SmiEnableVal & ~(UINT32)ICH9_SMI_EN_GBL_SMI_EN
ProbeValue(val) == val \ ICH9_SMI_EN_GBL_SMI_EN

\* Variant of the read-back check with the comparison inverted.
LockDownFailedInverted(readBack, val) == readBack = val

\* Variants of the read-back check: compared with the probe value instead
\* of the step-4 value; comparing the GBL_SMI_EN bit only.
LockDownFailedVsProbe(readBack, val) ==
  readBack # (val \ ICH9_SMI_EN_GBL_SMI_EN)

LockDownFailedGblOnly(readBack, val) ==
  (readBack \cap ICH9_SMI_EN_GBL_SMI_EN) # (val \cap ICH9_SMI_EN_GBL_SMI_EN)

\* IoRead32 (mSmiEnable) != SmiEnableVal: "failed to lock down GBL_SMI_EN"
LockDownFailed(readBack, val) == readBack # val

EntryComputeAddress ==
  /\ pc = "Start"
  /\ mSmiEnable' = SmiEnableAddress(pmbaseReg)
  /\ Log(Access("init", "PciRead32", ICH9_PMBASE, pmbaseReg))
  /\ pc' = "ReadSmiEn"
  /\ UNCHANGED <<mControl2, hwVars, callVars, mSmiFeatureNegotiation, SmiEnableVal,
                 Status, retStatus, published, negotiateCalls, installCalls>>

\* SmiEnableVal = IoRead32 (mSmiEnable), and the check of a pre-set APMC_EN.
EntryReadSmiEn ==
  /\ pc = "ReadSmiEn"
  /\ SmiEnableVal' = smiEn
  /\ Log(Access("init", "IoRead32", mSmiEnable, smiEn))
  /\ pc' = IF LacksSmi(smiEn, PcdStandaloneMmEnable)
             THEN "FatalError" ELSE "WriteEnable"
  /\ UNCHANGED <<mControl2, hwVars, callVars, mSmiEnable, mSmiFeatureNegotiation, Status,
                 retStatus, published, negotiateCalls, installCalls>>

EntryWriteEnable ==
  /\ pc = "WriteEnable"
  /\ SmiEnableVal' = EnableValue(SmiEnableVal)
  /\ smiEn' = SmiEnAfterWrite(SmiEnableVal')
  /\ Log(Access("init", "IoWrite32", mSmiEnable, SmiEnableVal'))
  /\ pc' = "Lock"
  /\ UNCHANGED <<mControl2, pmbaseReg, smiLock, apmSts, apmCnt, hwWritable, hwLockSticks,
                 hwLockProtects, PcdStandaloneMmEnable, callVars, mSmiEnable,
                 mSmiFeatureNegotiation, Status, retStatus, published,
                 negotiateCalls, installCalls>>

\* Variant: the lock write is left out.
EntryLockSkipped ==
  /\ pc = "Lock"
  /\ pc' = "Probe"
  /\ UNCHANGED <<mControl2, hwVars, callVars, mSmiEnable,
                 mSmiFeatureNegotiation, SmiEnableVal, Status, retStatus,
                 published, obsVars>>

\* PciOr16 (ICH9_GEN_PMCON_1, ICH9_GEN_PMCON_1_SMI_LOCK)
EntryLock ==
  /\ pc = "Lock"
  /\ smiLock' = (smiLock \/ hwLockSticks)
  /\ Log(Access("init", "PciOr16", ICH9_GEN_PMCON_1, ICH9_GEN_PMCON_1_SMI_LOCK))
  /\ pc' = "Probe"
  /\ UNCHANGED <<mControl2, pmbaseReg, smiEn, apmSts, apmCnt, hwWritable, hwLockSticks,
                 hwLockProtects, PcdStandaloneMmEnable, callVars, mSmiEnable,
                 mSmiFeatureNegotiation, SmiEnableVal, Status, retStatus, published,
                 negotiateCalls, installCalls>>

EntryProbe ==
  /\ pc = "Probe"
  /\ smiEn' = SmiEnAfterWrite(ProbeValue(SmiEnableVal))
  /\ Log(Access("init", "IoWrite32", mSmiEnable, ProbeValue(SmiEnableVal)))
  /\ pc' = "ReadBack"
  /\ UNCHANGED <<mControl2, pmbaseReg, smiLock, apmSts, apmCnt, hwWritable, hwLockSticks,
                 hwLockProtects, PcdStandaloneMmEnable, callVars, mSmiEnable,
                 mSmiFeatureNegotiation, SmiEnableVal, Status, retStatus, published,
                 negotiateCalls, installCalls>>

EntryReadBack ==
  /\ pc = "ReadBack"
  /\ Log(Access("init", "IoRead32", mSmiEnable, smiEn))
  /\ pc' = IF LockDownFailed(smiEn, SmiEnableVal)
             THEN "FatalError" ELSE "Negotiate"
  /\ UNCHANGED <<mControl2, hwVars, callVars, mSmiEnable, mSmiFeatureNegotiation,
                 SmiEnableVal, Status, retStatus, published, negotiateCalls,
                 installCalls>>

\* mSmiFeatureNegotiation = NegotiateSmiFeatures ()
EntryNegotiate ==
  /\ pc = "Negotiate"
  /\ \E r \in BOOLEAN : mSmiFeatureNegotiation' = r
  /\ negotiateCalls' = negotiateCalls + 1
  /\ pc' = "Install"
  /\ UNCHANGED <<mControl2, hwVars, callVars, mSmiEnable, SmiEnableVal, Status,
                 retStatus, published, ioLog, installCalls>>

\* Variant: a failed negotiation is treated as fatal.
EntryInstallNeedsNegotiation ==
  /\ pc = "Install"
  /\ IF mSmiFeatureNegotiation
       THEN /\ installCalls' = installCalls + 1
            /\ \E st \in InstallStatuses :
                 /\ Status' = st
                 /\ published' = ~EFI_ERROR(st)
                 /\ pc' = IF EFI_ERROR(st) THEN "FatalError" ELSE "Return"
       ELSE /\ pc' = "FatalError"
            /\ UNCHANGED <<installCalls, Status, published>>
  /\ UNCHANGED <<mControl2, hwVars, callVars, mSmiEnable,
                 mSmiFeatureNegotiation, SmiEnableVal, retStatus, ioLog,
                 negotiateCalls>>

\* Variant: the status of the installation is not checked.
EntryInstallIgnoresStatus ==
  /\ pc = "Install"
  /\ installCalls' = installCalls + 1
  /\ \E st \in InstallStatuses :
       /\ Status' = st
       /\ published' = ~EFI_ERROR(st)
       /\ pc' = "Return"
  /\ UNCHANGED <<mControl2, hwVars, callVars, mSmiEnable,
                 mSmiFeatureNegotiation, SmiEnableVal, retStatus, ioLog,
                 negotiateCalls>>

\* Status = gBS->InstallMultipleProtocolInterfaces (...); if (EFI_ERROR (Status))
EntryInstall ==
  /\ pc = "Install"
  /\ installCalls' = installCalls + 1
  /\ \E st \in InstallStatuses :
       /\ Status' = st
       /\ published' = ~EFI_ERROR(st)
       /\ pc' = IF EFI_ERROR(st) THEN "FatalError" ELSE "Return"
  /\ UNCHANGED <<mControl2, hwVars, callVars, mSmiEnable, mSmiFeatureNegotiation,
                 SmiEnableVal, retStatus, ioLog, negotiateCalls>>

\* return EFI_SUCCESS
EntryReturn ==
  /\ pc = "Return"
  /\ retStatus' = "EFI_SUCCESS"
  /\ pc' = "returned"
  /\ UNCHANGED <<mControl2, hwVars, callVars, mSmiEnable, mSmiFeatureNegotiation,
                 SmiEnableVal, Status, published, obsVars>>

\* FatalError: ASSERT (FALSE); CpuDeadLoop ();
EntryFatalError ==
  /\ pc = "FatalError"
  /\ pc' = "halted"
  /\ UNCHANGED <<mControl2, hwVars, callVars, mSmiEnable, mSmiFeatureNegotiation,
                 SmiEnableVal, Status, retStatus, published, obsVars>>

\* Variant: the dead loop falls through to return EFI_UNSUPPORTED.
CpuDeadLoopFallsThrough ==
  /\ pc = "halted"
  /\ retStatus' = "EFI_UNSUPPORTED"
  /\ pc' = "returned"
  /\ UNCHANGED <<mControl2, hwVars, callVars, mSmiEnable, mSmiFeatureNegotiation,
                 SmiEnableVal, Status, published, obsVars>>

\* CpuDeadLoop never returns, so the trailing return EFI_UNSUPPORTED is
\* never executed.
CpuDeadLoop ==
  /\ pc = "halted"
  /\ UNCHANGED vars

(* ------------------------------------------------------------------ *)
(* SmmControl2DxeTrigger                                               *)
(* ------------------------------------------------------------------ *)

\* Variant: the two conditions joined by && instead of ||.
TriggerUnsupportedBoth(Periodic, ActivationInterval) ==
  Periodic /\ (ActivationInterval > 0)

\* if (Periodic || (ActivationInterval > 0)) return EFI_DEVICE_ERROR;
TriggerUnsupported(Periodic, ActivationInterval) ==
  Periodic \/ (ActivationInterval > 0)

\* Port == NULL ? 0 : *Port
PortByte(Port) == IF Port = << >> THEN 0 ELSE Port[1]

\* Variant: the functions can be reached without the installed protocol.
CanCallUnpublished(c) ==
  /\ tpc[c] = "idle"
  /\ calls[c] < MaxCalls

\* The protocol can be called once mControl2 is installed, while the
\* bound on calls allows one more.
CanCall(c) ==
  /\ published
  /\ tpc[c] = "idle"
  /\ calls[c] < MaxCalls

\* Variant: a Trigger that follows a successful Trigger with no Clear in
\* between is refused ("the last activation has not been cleared").
TriggerEnterNeedsClear(c, CommandPort, DataPort, Periodic, ActivationInterval) ==
  /\ CanCall(c)
  /\ calls' = [calls EXCEPT ![c] = @ + 1]
  /\ tstart' = [tstart EXCEPT ![c] = Len(ioLog)]
  /\ targs' = [targs EXCEPT ![c] =
                 [op |-> "Trigger", CommandPort |-> CommandPort,
                  DataPort |-> DataPort, Periodic |-> Periodic,
                  ActivationInterval |-> ActivationInterval]]
  /\ IF TriggerUnsupported(Periodic, ActivationInterval)
       THEN /\ tret' = [tret EXCEPT ![c] = "EFI_DEVICE_ERROR"]
            /\ UNCHANGED tpc
       ELSE IF targs[c].op = "Trigger" /\ tret[c] = "EFI_SUCCESS"
         THEN /\ tret' = [tret EXCEPT ![c] = "EFI_INVALID_PARAMETER"]
              /\ UNCHANGED tpc
         ELSE /\ tret' = [tret EXCEPT ![c] = "none"]
              /\ tpc' = [tpc EXCEPT ![c] = "WriteSts"]
  /\ UNCHANGED <<hwVars, drvVars, obsVars>>

\* Entry of Trigger, up to the first register write.
TriggerEnter(c, CommandPort, DataPort, Periodic, ActivationInterval) ==
  /\ CanCall(c)
  /\ calls' = [calls EXCEPT ![c] = @ + 1]
  /\ tstart' = [tstart EXCEPT ![c] = Len(ioLog)]
  /\ targs' = [targs EXCEPT ![c] =
                 [op |-> "Trigger", CommandPort |-> CommandPort,
                  DataPort |-> DataPort, Periodic |-> Periodic,
                  ActivationInterval |-> ActivationInterval]]
  /\ IF TriggerUnsupported(Periodic, ActivationInterval)
       THEN /\ tret' = [tret EXCEPT ![c] = "EFI_DEVICE_ERROR"]
            /\ UNCHANGED tpc
       ELSE /\ tret' = [tret EXCEPT ![c] = "none"]
            /\ tpc' = [tpc EXCEPT ![c] = "WriteSts"]
  /\ UNCHANGED <<hwVars, drvVars, obsVars>>

\* Variant: the data port is given the command byte.
TriggerWriteStsFromCommand(c) ==
  /\ tpc[c] = "WriteSts"
  /\ apmSts' = PortByte(targs[c].CommandPort)
  /\ Log(Access(c, "IoWrite8", ICH9_APM_STS, apmSts'))
  /\ tpc' = [tpc EXCEPT ![c] = "WriteCnt"]
  /\ UNCHANGED <<pmbaseReg, smiEn, smiLock, apmCnt, hwWritable, hwLockSticks,
                 hwLockProtects, PcdStandaloneMmEnable, drvVars, targs, tret,
                 tstart, calls, negotiateCalls, installCalls>>

\* Variant: the first write of Trigger goes to the control port.
TriggerWriteCntFirst(c) ==
  /\ tpc[c] = "WriteSts"
  /\ apmCnt' = PortByte(targs[c].CommandPort)
  /\ Log(Access(c, "IoWrite8", ICH9_APM_CNT, apmCnt'))
  /\ tpc' = [tpc EXCEPT ![c] = "WriteCnt"]
  /\ UNCHANGED <<pmbaseReg, smiEn, smiLock, apmSts, hwWritable, hwLockSticks,
                 hwLockProtects, PcdStandaloneMmEnable, drvVars, targs, tret,
                 tstart, calls, negotiateCalls, installCalls>>

\* IoWrite8 (ICH9_APM_STS, DataPort == NULL ? 0 : *DataPort)
TriggerWriteSts(c) ==
  /\ tpc[c] = "WriteSts"
  /\ apmSts' = PortByte(targs[c].DataPort)
  /\ Log(Access(c, "IoWrite8", ICH9_APM_STS, apmSts'))
  /\ tpc' = [tpc EXCEPT ![c] = "WriteCnt"]
  /\ UNCHANGED <<pmbaseReg, smiEn, smiLock, apmCnt, hwWritable, hwLockSticks,
                 hwLockProtects, PcdStandaloneMmEnable, drvVars, targs, tret,
                 tstart, calls, negotiateCalls, installCalls>>

\* Variant: the control port is given the data byte.
TriggerWriteCntFromData(c) ==
  /\ tpc[c] = "WriteCnt"
  /\ apmCnt' = PortByte(targs[c].DataPort)
  /\ Log(Access(c, "IoWrite8", ICH9_APM_CNT, apmCnt'))
  /\ tpc' = [tpc EXCEPT ![c] = "idle"]
  /\ tret' = [tret EXCEPT ![c] = "EFI_SUCCESS"]
  /\ UNCHANGED <<pmbaseReg, smiEn, smiLock, apmSts, hwWritable, hwLockSticks,
                 hwLockProtects, PcdStandaloneMmEnable, drvVars, targs,
                 tstart, calls, negotiateCalls, installCalls>>

\* IoWrite8 (ICH9_APM_CNT, CommandPort == NULL ? 0 : *CommandPort);
\* return EFI_SUCCESS
TriggerWriteCnt(c) ==
  /\ tpc[c] = "WriteCnt"
  /\ apmCnt' = PortByte(targs[c].CommandPort)
  /\ Log(Access(c, "IoWrite8", ICH9_APM_CNT, apmCnt'))
  /\ tpc' = [tpc EXCEPT ![c] = "idle"]
  /\ tret' = [tret EXCEPT ![c] = "EFI_SUCCESS"]
  /\ UNCHANGED <<pmbaseReg, smiEn, smiLock, apmSts, hwWritable, hwLockSticks,
                 hwLockProtects, PcdStandaloneMmEnable, drvVars, targs,
                 tstart, calls, negotiateCalls, installCalls>>

(* ------------------------------------------------------------------ *)
(* SmmControl2DxeClear                                                 *)
(* ------------------------------------------------------------------ *)

\* Variant: the Periodic check is missing.
ClearStatusUnchecked(Periodic) == "EFI_SUCCESS"

\* if (Periodic) return EFI_INVALID_PARAMETER; ... return EFI_SUCCESS;
ClearStatus(Periodic) ==
  IF Periodic THEN "EFI_INVALID_PARAMETER" ELSE "EFI_SUCCESS"

\* Variant: Clear deasserts the source by switching APMC_EN off.
ClearDisablesApmc(c, Periodic) ==
  /\ CanCall(c)
  /\ calls' = [calls EXCEPT ![c] = @ + 1]
  /\ tstart' = [tstart EXCEPT ![c] = Len(ioLog)]
  /\ targs' = [targs EXCEPT ![c] = [op |-> "Clear", Periodic |-> Periodic]]
  /\ tret' = [tret EXCEPT ![c] = ClearStatus(Periodic)]
  /\ smiEn' = SmiEnAfterWrite(smiEn \ ICH9_SMI_EN_APMC_EN)
  /\ Log(Access(c, "IoWrite32", mSmiEnable, smiEn \ ICH9_SMI_EN_APMC_EN))
  /\ UNCHANGED <<pmbaseReg, smiLock, apmSts, apmCnt, hwWritable, hwLockSticks,
                 hwLockProtects, PcdStandaloneMmEnable, drvVars, tpc,
                 negotiateCalls, installCalls>>

Clear(c, Periodic) ==
  /\ CanCall(c)
  /\ calls' = [calls EXCEPT ![c] = @ + 1]
  /\ tstart' = [tstart EXCEPT ![c] = Len(ioLog)]
  /\ targs' = [targs EXCEPT ![c] = [op |-> "Clear", Periodic |-> Periodic]]
  /\ tret' = [tret EXCEPT ![c] = ClearStatus(Periodic)]
  /\ UNCHANGED <<hwVars, drvVars, obsVars, tpc>>

(* ------------------------------------------------------------------ *)
(* Specification                                                       *)
(* ------------------------------------------------------------------ *)

\* DXE is single-threaded: a protocol call runs to its return before the
\* next one starts.
NoCallInProgress == \A c \in Callers : tpc[c] = "idle"

EntryPoint ==
  \/ EntryComputeAddress
  \/ EntryReadSmiEn
  \/ EntryWriteEnable
  \/ EntryLock
  \/ EntryProbe
  \/ EntryReadBack
  \/ EntryNegotiate
  \/ EntryInstall
  \/ EntryReturn
  \/ EntryFatalError
  \/ CpuDeadLoop

Trigger(c) ==
  \/ /\ NoCallInProgress
     /\ \E CommandPort \in CommandPortArgs, DataPort \in DataPortArgs,
           Periodic \in BOOLEAN, ActivationInterval \in ActivationIntervals :
          TriggerEnter(c, CommandPort, DataPort, Periodic, ActivationInterval)
  \/ TriggerWriteSts(c)
  \/ TriggerWriteCnt(c)

ClearCall(c) ==
  /\ NoCallInProgress
  /\ \E Periodic \in BOOLEAN : Clear(c, Periodic)

\* The steps of the entry point that make progress (all but the dead loop).
EntryStep ==
  \/ EntryComputeAddress
  \/ EntryReadSmiEn
  \/ EntryWriteEnable
  \/ EntryLock
  \/ EntryProbe
  \/ EntryReadBack
  \/ EntryNegotiate
  \/ EntryInstall
  \/ EntryReturn
  \/ EntryFatalError

Next ==
  \/ EntryPoint
  \/ \E c \in BootCallers : Trigger(c)
  \/ \E c \in BootCallers : ClearCall(c)

Spec == Init /\ [][Next]_vars

\* The entry point is straight-line code on a running processor: each of
\* its steps is eventually taken.
FairSpec == Spec /\ WF_vars(EntryStep)

\* Callers on more than one processor: nothing in Trigger or Clear
\* serializes them, so their register writes interleave freely.  The bound
\* on calls is shared by the callers.
RECURSIVE CallsOf(_)
CallsOf(S) ==
  IF S = {} THEN 0
  ELSE LET c == CHOOSE x \in S : TRUE IN calls[c] + CallsOf(S \ {c})

CallBudgetLeft == CallsOf(Callers) < MaxCalls

ConcTrigger(c) ==
  \/ /\ CallBudgetLeft
     /\ \E CommandPort \in CommandPortArgs, DataPort \in DataPortArgs,
        Periodic \in BOOLEAN, ActivationInterval \in ActivationIntervals :
          TriggerEnter(c, CommandPort, DataPort, Periodic, ActivationInterval)
  \/ TriggerWriteSts(c)
  \/ TriggerWriteCnt(c)

ConcClear(c) ==
  /\ CallBudgetLeft
  /\ \E Periodic \in BOOLEAN : Clear(c, Periodic)

ConcNext ==
  \/ EntryPoint
  \/ \E c \in Callers : ConcTrigger(c)
  \/ \E c \in Callers : ConcClear(c)

\* Concurrent callers exist only after publication, which needs hardware
\* that passes the verification: the concurrent specification starts from
\* hardware whose SMI_EN bits are writable and whose lock, not yet set,
\* sticks and protects GBL_SMI_EN.
ConcInit ==
  /\ Init
  /\ hwWritable = SmiEnBits
  /\ hwLockSticks
  /\ hwLockProtects
  /\ ~smiLock
  /\ \A v \in PmBaseRegValues : pmbaseReg <= v

ConcSpec == ConcInit /\ [][ConcNext]_vars

(* ------------------------------------------------------------------ *)
(* Reading the access log                                              *)
(* ------------------------------------------------------------------ *)

IsSmiEnRead(e) == e.op = "IoRead32" /\ e.port = mSmiEnable

IsSmiEnWrite(e) == e.op = "IoWrite32" /\ e.port = mSmiEnable

IsLockWrite(e) == e.op = "PciOr16" /\ e.port = ICH9_GEN_PMCON_1

IsApmWrite(e) == e.op = "IoWrite8"

SmiEnReads == SelectSeq(ioLog, IsSmiEnRead)

SmiEnWrites == SelectSeq(ioLog, IsSmiEnWrite)

LockWrites == SelectSeq(ioLog, IsLockWrite)

ApmWrites == SelectSeq(ioLog, IsApmWrite)

\* The snapshot of step 2, the value written in step 4, the read-back of
\* step 6 (meaningful once the access has happened).
SnapshotDone == Len(SmiEnReads) >= 1

SnapshotVal == SmiEnReads[1].val

EnableWritten == Len(SmiEnWrites) >= 1

EnableWrittenVal == SmiEnWrites[1].val

ReadBackDone == Len(SmiEnReads) >= 2

ReadBackVal == SmiEnReads[2].val

Halting == pc \in {"FatalError", "halted"}

RunEnded == pc \in {"returned", "halted"}

NoProtocolCall ==
  /\ \A c \in Callers : calls[c] = 0 /\ tpc[c] = "idle" /\ tret[c] = "none"
  /\ ApmWrites = << >>

\* The accesses made by the entry point.
IsInitAccess(e) == e.by = "init"

InitAccesses == SelectSeq(ioLog, IsInitAccess)

\* The writes of the control port (each raises an SMI).
IsCntWrite(e) == e.op = "IoWrite8" /\ e.port = ICH9_APM_CNT

CntWrites == SelectSeq(ioLog, IsCntWrite)

\* The register writes of caller c's current / last call.
CallWrites(c) ==
  LET ByC(e) == e.by = c
  IN  SelectSeq(SubSeq(ioLog, tstart[c] + 1, Len(ioLog)), ByC)

(* ------------------------------------------------------------------ *)
(* Claims                                                              *)
(* ------------------------------------------------------------------ *)

\* C1: if the lock write was accepted (SMI_LOCK reads set) and yet the
\* probe write cleared GBL_SMI_EN, so that the read-back lacks the bit,
\* initialization is halting: nothing was negotiated, installation was
\* never attempted, the protocol is not published and no Trigger/Clear
\* call has run.
C1_ProbeClearHalts ==
  (/\ ReadBackDone
   /\ LockWrites # << >>
   /\ smiLock
   /\ (ReadBackVal \cap ICH9_SMI_EN_GBL_SMI_EN) = {})
  => /\ Halting
     /\ ReadBackVal # EnableWrittenVal
     /\ ~published
     /\ negotiateCalls = 0
     /\ installCalls = 0
     /\ retStatus = "none"
     /\ NoProtocolCall

C1_Witness ==
  /\ pc = "halted"
  /\ ReadBackDone
  /\ LockWrites # << >>
  /\ smiLock
  /\ (ReadBackVal \cap ICH9_SMI_EN_GBL_SMI_EN) = {}

\* C2: whenever the protocol is published, the read-back of the
\* verification equalled the step-4 value bit for bit, so APMC_EN and
\* GBL_SMI_EN were both read back set, the lock write had been issued,
\* and the register still holds both bits.
C2_PublishedImpliesVerified ==
  published =>
    /\ ReadBackDone
    /\ EnableWritten
    /\ ReadBackVal = EnableWrittenVal
    /\ ICH9_SMI_EN_APMC_EN \subseteq ReadBackVal
    /\ ICH9_SMI_EN_GBL_SMI_EN \subseteq ReadBackVal
    /\ LockWrites # << >>
    /\ ICH9_SMI_EN_APMC_EN \subseteq smiEn
    /\ ICH9_SMI_EN_GBL_SMI_EN \subseteq smiEn

\* A published run on hardware whose register started with both bits clear.
C2_Witness ==
  /\ published
  /\ retStatus = "EFI_SUCCESS"
  /\ SnapshotVal \cap (ICH9_SMI_EN_APMC_EN \cup ICH9_SMI_EN_GBL_SMI_EN) = {}
\* C3: a Trigger call with Periodic set, or with a non-zero
\* ActivationInterval, returns an error at once and writes no register:
\* the access log and both APM ports are as they were before the call.
C3_RejectedTriggerWritesNothing ==
  [][\A c \in Callers :
       (/\ calls'[c] = calls[c] + 1
        /\ targs'[c].op = "Trigger"
        /\ (targs'[c].Periodic \/ targs'[c].ActivationInterval > 0))
       => /\ EFI_ERROR(tret'[c])
          /\ tpc'[c] = "idle"
          /\ ioLog' = ioLog
          /\ UNCHANGED hwVars]_vars

\* A delayed, non-periodic request was rejected after an earlier call had
\* written the ports.
C3_Witness ==
  \E c \in Callers :
    /\ targs[c].op = "Trigger"
    /\ ~targs[c].Periodic
    /\ targs[c].ActivationInterval > 0
    /\ EFI_ERROR(tret[c])
    /\ CallWrites(c) = << >>
    /\ ApmWrites # << >>

\* C4: the register writes of a Trigger call that was not rejected are a
\* prefix of <<write ICH9_APM_STS, write ICH9_APM_CNT>>, and the call has
\* returned EFI_SUCCESS exactly when both have been made: two writes per
\* successful call, data port first, control port once and last.
C4_TriggerWriteOrder ==
  \A c \in Callers :
    (targs[c].op = "Trigger" /\ ~EFI_ERROR(tret[c])) =>
      LET w == CallWrites(c)
      IN  /\ Len(w) <= 2
          /\ \A i \in 1..Len(w) : w[i].op = "IoWrite8"
          /\ Len(w) >= 1 => w[1].port = ICH9_APM_STS
          /\ Len(w) = 2 => w[2].port = ICH9_APM_CNT
          /\ (tret[c] = "EFI_SUCCESS") <=> (Len(w) = 2)
          /\ (tpc[c] = "WriteCnt") <=> (Len(w) = 1)

C4_Witness ==
  \E c \in Callers :
    /\ targs[c].op = "Trigger"
    /\ tret[c] = "EFI_SUCCESS"
    /\ calls[c] >= 2
    /\ Len(CallWrites(c)) = 2
    /\ Len(ApmWrites) >= 4

\* C5: the byte written to ICH9_APM_STS is *DataPort, or 0 when DataPort
\* is NULL; the byte written to ICH9_APM_CNT is *CommandPort, or 0 when
\* CommandPort is NULL; each defaulted on its own.
C5_TriggerWritesArguments ==
  \A c \in Callers :
    (targs[c].op = "Trigger" /\ ~EFI_ERROR(tret[c])) =>
      LET w == CallWrites(c)
      IN  /\ Len(w) >= 1 =>
                w[1].val = (IF targs[c].DataPort = << >>
                              THEN 0 ELSE targs[c].DataPort[1])
          /\ Len(w) >= 2 =>
                w[2].val = (IF targs[c].CommandPort = << >>
                              THEN 0 ELSE targs[c].CommandPort[1])
          /\ (tret[c] = "EFI_SUCCESS" /\ NoCallInProgress
              /\ \A d \in Callers : tstart[d] <= tstart[c]) =>
                /\ apmSts = w[1].val
                /\ apmCnt = w[2].val

\* A successful call with DataPort NULL and CommandPort present.
C5_Witness ==
  \E c \in Callers :
    /\ targs[c].op = "Trigger"
    /\ tret[c] = "EFI_SUCCESS"
    /\ targs[c].DataPort = << >>
    /\ targs[c].CommandPort # << >>
    /\ Len(CallWrites(c)) = 2
    /\ CallWrites(c)[1].val = 0
    /\ CallWrites(c)[2].val = targs[c].CommandPort[1]

\* C6: a Clear call returns an error when Periodic is set and EFI_SUCCESS
\* when it is not, and in both cases writes no register and changes no
\* hardware or driver state.
C6_ClearIsPureCheck ==
  [][\A c \in Callers :
       (calls'[c] = calls[c] + 1 /\ targs'[c].op = "Clear")
       => /\ targs'[c].Periodic => EFI_ERROR(tret'[c])
          /\ ~targs'[c].Periodic => tret'[c] = "EFI_SUCCESS"
          /\ tpc'[c] = "idle"
          /\ UNCHANGED <<hwVars, drvVars, obsVars>>]_vars

\* Clear was rejected for Periodic after a Trigger had written the ports.
C6_Witness ==
  \E c \in Callers :
    /\ targs[c].op = "Clear"
    /\ targs[c].Periodic
    /\ EFI_ERROR(tret[c])
    /\ ApmWrites # << >>
\* C7: when the snapshot has APMC_EN set and GBL_SMI_EN clear and
\* PcdStandaloneMmEnable is on, initialization is halting and the only
\* accesses made are the PMBASE read and the SMI_EN read: SMI_EN was not
\* written, the lock bit was not written, nothing was negotiated or
\* installed and the protocol is not published.
C7_InconsistentHaltsAtOnce ==
  (/\ SnapshotDone
   /\ ICH9_SMI_EN_APMC_EN \subseteq SnapshotVal
   /\ (SnapshotVal \cap ICH9_SMI_EN_GBL_SMI_EN) = {}
   /\ PcdStandaloneMmEnable)
  => /\ Halting
     /\ SmiEnWrites = << >>
     /\ LockWrites = << >>
     /\ Len(ioLog) = 2
     /\ smiEn = SnapshotVal
     /\ negotiateCalls = 0
     /\ installCalls = 0
     /\ ~published
     /\ retStatus = "none"
     /\ NoProtocolCall

C7_Witness ==
  /\ pc = "halted"
  /\ SnapshotDone
  /\ ICH9_SMI_EN_APMC_EN \subseteq SnapshotVal
  /\ (SnapshotVal \cap ICH9_SMI_EN_GBL_SMI_EN) = {}
  /\ PcdStandaloneMmEnable
  /\ SmiEnWrites = << >>

\* Both bits were set in the snapshot, and the lock bit has been written,
\* reads set and makes GBL_SMI_EN read-only.
PreSetAndLocked ==
  /\ SnapshotDone
  /\ ICH9_SMI_EN_APMC_EN \subseteq SnapshotVal
  /\ ICH9_SMI_EN_GBL_SMI_EN \subseteq SnapshotVal
  /\ LockWrites # << >>
  /\ smiLock
  /\ hwLockProtects

\* C8 as claimed: with APMC_EN and GBL_SMI_EN pre-set and a lock that
\* takes effect, a finished run has written SMI_EN with the bits it read,
\* negotiated once and published the protocol.
C8_PresetAlwaysPublishes ==
  (RunEnded /\ PreSetAndLocked)
  => /\ EnableWrittenVal = SnapshotVal
     /\ negotiateCalls = 1
     /\ published
     /\ pc = "returned"

\* C8 (amended): with APMC_EN and GBL_SMI_EN pre-set and a lock that
\* takes effect, the step-4 write carries exactly the bits read and the
\* register never changes; the read-back check passes; a finished run has
\* negotiated once and attempted installation once, and it has published
\* and returned EFI_SUCCESS unless the installation returned an error, in
\* which case it has halted unpublished.
C8_PresetCompletes ==
  PreSetAndLocked
  => /\ EnableWrittenVal = SnapshotVal
     /\ smiEn = SnapshotVal
     /\ ReadBackDone => ReadBackVal = SnapshotVal
     /\ Halting => installCalls = 1 /\ EFI_ERROR(Status)
     /\ RunEnded =>
          /\ negotiateCalls = 1
          /\ installCalls = 1
          /\ ~EFI_ERROR(Status) =>
               published /\ pc = "returned" /\ retStatus = "EFI_SUCCESS"
          /\ EFI_ERROR(Status) => ~published /\ pc = "halted"

\* A finished, published run whose snapshot had both bits and a bystander.
C8_Witness ==
  /\ PreSetAndLocked
  /\ SnapshotVal = SmiEnBits
  /\ pc = "returned"
  /\ published
  /\ negotiateCalls = 1

\* C9 (states): the entry point has returned only EFI_SUCCESS, and only
\* with the protocol published; a halted run has returned nothing and
\* published nothing; every other position has a next step.
C9_TerminalStates ==
  /\ retStatus \in {"none", "EFI_SUCCESS"}
  /\ (retStatus # "none") <=> (pc = "returned")
  /\ pc = "returned" => published /\ retStatus = "EFI_SUCCESS"
  /\ Halting => ~published /\ retStatus = "none"
  /\ ~RunEnded => ENABLED EntryStep

\* C9 (steps): once halting, nothing but the position changes, and the
\* position stays in the halt.
C9_HaltAbsorbing ==
  Halting =>
    /\ pc' \in {"FatalError", "halted"}
    /\ UNCHANGED <<mControl2, hwVars, callVars, obsVars, mSmiEnable,
                   mSmiFeatureNegotiation, SmiEnableVal, Status, retStatus,
                   published>>

\* C9: every run of initialization ends published-and-returned-success or
\* halted; no error status is ever returned; the halt is absorbing.
C9_SuccessOrHalt ==
  /\ []C9_TerminalStates
  /\ [][C9_HaltAbsorbing]_vars
  /\ <>RunEnded

\* A run halted by a failed installation: the error went nowhere.
C9_Witness ==
  /\ pc = "halted"
  /\ EFI_ERROR(Status)
  /\ retStatus = "none"

\* C10 (states): NegotiateSmiFeatures was called at most once; if called,
\* the read-back had equalled the step-4 value; installation is attempted
\* only after it; a finished run whose read-back check passed called it
\* once; a run halting before any installation never called it.
C10_NegotiateStates ==
  /\ negotiateCalls \in {0, 1}
  /\ negotiateCalls = 1 =>
       ReadBackDone /\ EnableWritten /\ ReadBackVal = EnableWrittenVal
  /\ installCalls >= 1 => negotiateCalls = 1
  /\ (RunEnded /\ ReadBackDone /\ ReadBackVal = EnableWrittenVal) =>
       negotiateCalls = 1
  /\ (Halting /\ installCalls = 0) => negotiateCalls = 0

\* C10 (steps): the call happens after the read-back and before the
\* installation attempt.
C10_NegotiateStep ==
  /\ negotiateCalls' # negotiateCalls =>
       /\ negotiateCalls' = negotiateCalls + 1
       /\ ReadBackDone
       /\ ReadBackVal = EnableWrittenVal
       /\ installCalls = 0
       /\ installCalls' = 0
       /\ ioLog' = ioLog
  /\ installCalls' # installCalls =>
       negotiateCalls = 1 /\ negotiateCalls' = 1

\* C10: NegotiateSmiFeatures is invoked at most once per run, exactly once
\* when lock verification succeeds, after the read-back check and before
\* the installation attempt, and never in a run that halts at the
\* inconsistency check or at lock verification.
C10_NegotiateOnce ==
  /\ []C10_NegotiateStates
  /\ [][C10_NegotiateStep]_vars

C10_Witness ==
  /\ negotiateCalls = 1
  /\ installCalls = 1
  /\ pc = "returned"
\* C11 (states): installation was attempted at most once, and only after
\* the lock write, a passed read-back check and the negotiation; after a
\* failed attempt the run is halting, unpublished, and has returned
\* nothing; the protocol is published only by a successful attempt.
C11_PublishStates ==
  /\ installCalls \in {0, 1}
  /\ installCalls = 1 =>
       /\ negotiateCalls = 1
       /\ LockWrites # << >>
       /\ ReadBackDone
       /\ ReadBackVal = EnableWrittenVal
  /\ (installCalls = 1 /\ EFI_ERROR(Status)) =>
       Halting /\ ~published /\ retStatus = "none"
  /\ published => installCalls = 1 /\ Status = "EFI_SUCCESS"
  /\ installCalls = 0 => Status = "none"

\* C11 (steps): the attempt is made from a state with no earlier attempt;
\* only the attempt publishes; what is published stays published.
C11_PublishStep ==
  /\ installCalls' # installCalls =>
       installCalls = 0 /\ installCalls' = 1 /\ ~published
  /\ published' # published =>
       ~published /\ installCalls' = installCalls + 1
  /\ published => published'

\* C11: publication is attempted at most once per run, after lock
\* verification and negotiation; a failed attempt halts the run without a
\* retry and without a success return; the protocol is published at most
\* once and never after a failure.
C11_PublishOnce ==
  /\ []C11_PublishStates
  /\ [][C11_PublishStep]_vars

C11_Witness ==
  /\ installCalls = 1
  /\ Status = "EFI_INVALID_PARAMETER"
  /\ negotiateCalls = 1
  /\ pc = "halted"
  /\ ~published

\* C12 (states): while the protocol is published, SMI_EN holds APMC_EN and
\* GBL_SMI_EN and MinimumTriggerPeriod is MAX_UINTN.
C12_PublishedStates ==
  published =>
    /\ ICH9_SMI_EN_APMC_EN \subseteq smiEn
    /\ ICH9_SMI_EN_GBL_SMI_EN \subseteq smiEn
    /\ mControl2.MinimumTriggerPeriod = MAX_UINTN
    /\ Len(SmiEnWrites) = 2
    /\ Len(LockWrites) = 1

\* C12 (steps): a step from a published state neither accesses SMI_EN or
\* the lock bit nor changes SMI_EN, SMI_LOCK, mSmiEnable,
\* mSmiFeatureNegotiation or mControl2.
C12_PublishedStep ==
  published =>
    /\ SmiEnWrites' = SmiEnWrites
    /\ SmiEnReads' = SmiEnReads
    /\ LockWrites' = LockWrites
    /\ UNCHANGED <<smiEn, smiLock, pmbaseReg, mSmiEnable,
                   mSmiFeatureNegotiation, mControl2, published>>

\* C12: after publication no Trigger or Clear call writes the enable
\* register or the lock bit or changes mSmiEnable, mSmiFeatureNegotiation
\* or the minimum trigger period, so the committed bits stay set.
C12_SurfaceLeavesConfiguration ==
  /\ []C12_PublishedStates
  /\ [][C12_PublishedStep]_vars

C12_Witness ==
  /\ published
  /\ \E c \in Callers : calls[c] >= 2 /\ targs[c].op = "Clear"
  /\ ApmWrites # << >>
  /\ ICH9_SMI_EN_APMC_EN \subseteq smiEn
  /\ ICH9_SMI_EN_GBL_SMI_EN \subseteq smiEn
\* What a call with arguments a returns and writes, read off the
\* arguments alone.
ByteOf(p) == IF p = << >> THEN 0 ELSE p[1]

ExpectedStatus(a) ==
  IF a.op = "Trigger"
    THEN IF a.Periodic \/ a.ActivationInterval > 0
           THEN "EFI_DEVICE_ERROR" ELSE "EFI_SUCCESS"
    ELSE IF a.Periodic THEN "EFI_INVALID_PARAMETER" ELSE "EFI_SUCCESS"

ExpectedWrites(c, a) ==
  IF a.op = "Trigger" /\ ~a.Periodic /\ a.ActivationInterval = 0
    THEN <<Access(c, "IoWrite8", ICH9_APM_STS, ByteOf(a.DataPort)),
           Access(c, "IoWrite8", ICH9_APM_CNT, ByteOf(a.CommandPort))>>
    ELSE << >>

\* Caller c has made a call and that call has returned.
Returned(c) == targs[c].op # "none" /\ tpc[c] = "idle"

\* C13 (states), stated without mSmiFeatureNegotiation: after the
\* negotiation the run is at the installation whatever was negotiated;
\* whether it ends published or halted is decided by the read-back check
\* and the installation status; every returned call returned and wrote
\* what its arguments determine; and in a published state every Trigger
\* and Clear call can be made.
C13_NegotiationFreeStates ==
  /\ (negotiateCalls = 1 /\ installCalls = 0) => pc = "Install"
  /\ negotiateCalls = 1 => Len(InitAccesses) = 6
  /\ installCalls = 1 =>
       /\ published <=> (Status = "EFI_SUCCESS")
       /\ Halting <=> EFI_ERROR(Status)
  /\ RunEnded =>
       ((pc = "returned") <=>
          (/\ ReadBackDone
           /\ ReadBackVal = EnableWrittenVal
           /\ Status = "EFI_SUCCESS"))
  /\ \A c \in Callers :
       Returned(c) =>
         /\ tret[c] = ExpectedStatus(targs[c])
         /\ CallWrites(c) = ExpectedWrites(c, targs[c])
  /\ \A c \in BootCallers :
       (published /\ NoCallInProgress /\ calls[c] < MaxCalls) =>
         /\ \A cp \in CommandPortArgs, dp \in DataPortArgs, p \in BOOLEAN,
               ai \in ActivationIntervals :
              ENABLED TriggerEnter(c, cp, dp, p, ai)
         /\ \A p \in BOOLEAN : ENABLED Clear(c, p)

\* C13 (steps): the negotiation changes only its stored result (and the
\* position); nothing else ever changes the stored result.
C13_NegotiationStep ==
  /\ negotiateCalls' # negotiateCalls =>
       /\ pc' = "Install"
       /\ UNCHANGED <<hwVars, callVars, ioLog, installCalls, mSmiEnable,
                      SmiEnableVal, Status, retStatus, published, mControl2>>
  /\ mSmiFeatureNegotiation' # mSmiFeatureNegotiation =>
       negotiateCalls' = negotiateCalls + 1

\* C13: the negotiation result is advisory.  Register accesses, terminal
\* state and the results and writes of Trigger and Clear are all fixed by
\* things other than mSmiFeatureNegotiation, so two runs that differ only
\* in what NegotiateSmiFeatures returned agree on them.
C13_NegotiationAdvisory ==
  /\ []C13_NegotiationFreeStates
  /\ [][C13_NegotiationStep]_vars

\* A run whose negotiation returned FALSE, published, with a successful
\* Trigger.
C13_Witness ==
  /\ negotiateCalls = 1
  /\ ~mSmiFeatureNegotiation
  /\ pc = "returned"
  /\ published
  /\ \E c \in Callers :
       /\ Returned(c)
       /\ targs[c].op = "Trigger"
       /\ tret[c] = "EFI_SUCCESS"
\* C14 (states): what a returned call returned and wrote is read off its
\* own arguments; a Trigger can be made right after a successful Trigger
\* (no Clear in between) and right after a Clear; a Clear can be made
\* right after a Clear.
C14_StatelessStates ==
  /\ \A c \in Callers :
       Returned(c) =>
         /\ tret[c] = ExpectedStatus(targs[c])
         /\ CallWrites(c) = ExpectedWrites(c, targs[c])
         /\ (targs[c].op = "Clear" /\ ~targs[c].Periodic) =>
              tret[c] = "EFI_SUCCESS"
  /\ \A c \in BootCallers :
       (Returned(c) /\ NoCallInProgress /\ calls[c] < MaxCalls) =>
         /\ ENABLED TriggerEnter(c, << >>, << >>, FALSE, 0)
         /\ ENABLED Clear(c, FALSE)

\* C14 (steps): each Trigger that returns EFI_SUCCESS adds exactly one
\* write of the control port, and nothing else adds one.
C14_StatelessStep ==
  /\ \A c \in Callers :
       (tpc[c] = "WriteCnt" /\ tpc'[c] = "idle") =>
         /\ tret'[c] = "EFI_SUCCESS"
         /\ Len(CntWrites') = Len(CntWrites) + 1
  /\ Len(CntWrites') # Len(CntWrites) =>
       \E c \in Callers :
         /\ tpc[c] = "WriteCnt"
         /\ tpc'[c] = "idle"
         /\ tret'[c] = "EFI_SUCCESS"
  /\ \A c \in Callers :
       (tret'[c] = "EFI_SUCCESS" /\ tret[c] # "EFI_SUCCESS"
        /\ targs'[c].op = "Trigger") =>
         tpc[c] = "WriteCnt"

\* C14: Trigger and Clear are stateless: result and writes depend on the
\* call's arguments only; n successful Trigger calls make n writes of the
\* control port; Trigger succeeds with or without a Clear since the last
\* Trigger; repeated Clear(FALSE) calls succeed.
C14_Stateless ==
  /\ []C14_StatelessStates
  /\ [][C14_StatelessStep]_vars

\* Two successful Trigger calls in a row, no Clear between them.
C14_Witness ==
  \E c \in Callers :
    /\ calls[c] = 2
    /\ Returned(c)
    /\ targs[c].op = "Trigger"
    /\ tret[c] = "EFI_SUCCESS"
    /\ Len(CntWrites) = 2
\* C15: the error a caller gets from a rejected Trigger and the error it
\* gets from a rejected Clear made next are the same value.
C15_SameErrorKind ==
  [][\A c \in Callers :
       (/\ Returned(c)
        /\ targs[c].op = "Trigger"
        /\ EFI_ERROR(tret[c])
        /\ calls'[c] = calls[c] + 1
        /\ targs'[c].op = "Clear"
        /\ targs'[c].Periodic)
       => tret'[c] = tret[c]]_vars

\* The accesses of SMI_EN and of the lock bit, in order.
IsConfigAccess(e) == IsSmiEnRead(e) \/ IsSmiEnWrite(e) \/ IsLockWrite(e)

ConfigAccesses == SelectSeq(ioLog, IsConfigAccess)

ConfigOrder == <<"IoRead32", "IoWrite32", "PciOr16", "IoWrite32", "IoRead32">>

\* C16 (states): the accesses of SMI_EN and the lock bit are always a
\* prefix of: read SMI_EN, write it with both bits set, write the lock
\* bit, write SMI_EN with GBL_SMI_EN cleared, read SMI_EN; all made by the
\* entry point, right after the PMBASE read.  Each position of the entry
\* point has made exactly the accesses before it, and a run past the
\* read-back has made all five and never a sixth.
C16_ConfigOrderStates ==
  LET L == ConfigAccesses
  IN  /\ Len(L) <= Len(ConfigOrder)
      /\ \A i \in 1..Len(L) : L[i].op = ConfigOrder[i] /\ L[i].by = "init"
      /\ InitAccesses # << >> =>
           /\ InitAccesses[1].op = "PciRead32"
           /\ Len(InitAccesses) = Len(L) + 1
      /\ Len(L) >= 2 =>
           (ICH9_SMI_EN_APMC_EN \cup ICH9_SMI_EN_GBL_SMI_EN) \subseteq L[2].val
      /\ Len(L) >= 4 => (L[4].val \cap ICH9_SMI_EN_GBL_SMI_EN) = {}
      /\ pc = "WriteEnable" => Len(L) = 1
      /\ pc = "Lock" => Len(L) = 2
      /\ pc = "Probe" => Len(L) = 3
      /\ pc = "ReadBack" => Len(L) = 4
      /\ pc \in {"Negotiate", "Install", "Return", "returned"} => Len(L) = 5
      /\ Halting => Len(L) \in {1, 5}

\* C16: in every run that gets past the inconsistency check the accesses
\* happen in that order, and all five of them happen.
C16_ConfigOrder ==
  /\ []C16_ConfigOrderStates
  /\ (pc = "WriteEnable") ~> (Len(ConfigAccesses) = Len(ConfigOrder))

C16_Witness ==
  /\ pc = "returned"
  /\ Len(ConfigAccesses) = 5
  /\ ConfigAccesses[3].op = "PciOr16"
  /\ ApmWrites # << >>

\* C17: the value written in step 4 is the snapshot with APMC_EN and
\* GBL_SMI_EN added and nothing else changed; the probe value is the
\* step-4 value with GBL_SMI_EN alone removed; and the run goes to the
\* fatal error after the read-back exactly when the read-back differs
\* from the step-4 value.
C17_WrittenValues ==
  /\ EnableWritten =>
       /\ EnableWrittenVal =
            SnapshotVal \cup ICH9_SMI_EN_APMC_EN \cup ICH9_SMI_EN_GBL_SMI_EN
       /\ EnableWrittenVal \ (ICH9_SMI_EN_APMC_EN \cup ICH9_SMI_EN_GBL_SMI_EN)
            = SnapshotVal \ (ICH9_SMI_EN_APMC_EN \cup ICH9_SMI_EN_GBL_SMI_EN)
       /\ SmiEnableVal = EnableWrittenVal
  /\ Len(SmiEnWrites) >= 2 =>
       /\ SmiEnWrites[2].val = EnableWrittenVal \ ICH9_SMI_EN_GBL_SMI_EN
       /\ SmiEnWrites[2].val \cup ICH9_SMI_EN_GBL_SMI_EN = EnableWrittenVal
  /\ ReadBackDone =>
       ((Halting /\ installCalls = 0) <=> (ReadBackVal # EnableWrittenVal))

\* The read-back equalled the step-4 value although it differs from both
\* the snapshot and the probe value, and the run went on.
C17_Witness ==
  /\ ReadBackDone
  /\ pc = "Negotiate"
  /\ SnapshotVal = SmiEnBits \ (ICH9_SMI_EN_APMC_EN \cup ICH9_SMI_EN_GBL_SMI_EN)
  /\ EnableWrittenVal = SmiEnBits
  /\ ReadBackVal # SmiEnWrites[2].val
  /\ ReadBackVal # SnapshotVal

\* The snapshot shows APMC_EN set, GBL_SMI_EN clear, on a Standalone MM
\* platform.
SnapshotInconsistent ==
  /\ ICH9_SMI_EN_APMC_EN \subseteq SnapshotVal
  /\ (SnapshotVal \cap ICH9_SMI_EN_GBL_SMI_EN) = {}
  /\ PcdStandaloneMmEnable

\* C18: once the snapshot is taken, the run is halting with no write of
\* SMI_EN exactly when the snapshot is inconsistent; otherwise it is at
\* the step-4 write, which it can take, or has made it.
C18_InconsistencyCheck ==
  SnapshotDone =>
    /\ (Halting /\ ~EnableWritten) <=> SnapshotInconsistent
    /\ ~SnapshotInconsistent =>
         \/ pc = "WriteEnable" /\ ENABLED EntryWriteEnable
         \/ EnableWritten

\* APMC_EN pre-set with GBL_SMI_EN clear on a platform that is not a
\* Standalone MM one: the run went on to the step-4 write.
C18_Witness ==
  /\ SnapshotDone
  /\ ICH9_SMI_EN_APMC_EN \subseteq SnapshotVal
  /\ (SnapshotVal \cap ICH9_SMI_EN_GBL_SMI_EN) = {}
  /\ ~PcdStandaloneMmEnable
  /\ EnableWritten
\* The writes of the data port.
IsStsWrite(e) == e.op = "IoWrite8" /\ e.port = ICH9_APM_STS

StsWrites == SelectSeq(ioLog, IsStsWrite)

\* Caller c made the latest write of the data port.
WroteStsLast(c) ==
  StsWrites # << >> /\ StsWrites[Len(StsWrites)].by = c

\* C19 as claimed: whenever a call is about to write the control port,
\* whatever the interleaving with other calls, the data port holds the
\* data byte of that call.
C19_DataInPlaceAlways ==
  \A c \in Callers :
    tpc[c] = "WriteCnt" => apmSts = ByteOf(targs[c].DataPort)

\* C19 (amended): whenever a call is about to write the control port and
\* no other caller has written the data port since this call did, the
\* data port holds the data byte of this call.
C19_DataInPlaceIfSerialized ==
  \A c \in Callers :
    (tpc[c] = "WriteCnt" /\ WroteStsLast(c)) =>
      apmSts = ByteOf(targs[c].DataPort)

\* A call about to write the control port, its own data byte in place,
\* while a call of the other caller with different data is in progress.
C19_Witness ==
  \E c \in Callers, d \in Callers :
    /\ c # d
    /\ tpc[c] = "WriteCnt"
    /\ WroteStsLast(c)
    /\ tpc[d] = "WriteSts"
    /\ targs[d].DataPort # targs[c].DataPort
    /\ apmSts = ByteOf(targs[c].DataPort)

\* C20 (states): while the protocol is not published no Trigger or Clear
\* call has begun and the APM ports have not been written; in the access
\* log every access of the entry point comes before every write of a
\* call; a call has begun only after all six accesses of the entry point.
C20_NoCallBeforePublishStates ==
  /\ ~published => NoProtocolCall /\ apmSts = 0 /\ apmCnt = 0
  /\ \A i \in 1..Len(ioLog), j \in 1..Len(ioLog) :
       (ioLog[i].by = "init" /\ ioLog[j].by # "init") => i < j
  /\ (\E c \in Callers : calls[c] > 0) =>
       /\ published
       /\ Len(InitAccesses) = 6
       /\ ReadBackDone
       /\ LockWrites # << >>

\* C20 (steps): a call begins, and an APM port is written, only in a
\* published state.
C20_NoCallBeforePublishStep ==
  /\ calls' # calls => published
  /\ ApmWrites' # ApmWrites => published

\* C20: no Trigger or Clear call, and so no write of the data or control
\* port, happens before the entry point has published the protocol; all
\* register accesses of initialization precede the first write of a call.
C20_NoCallBeforePublish ==
  /\ []C20_NoCallBeforePublishStates
  /\ [][C20_NoCallBeforePublishStep]_vars

C20_Witness ==
  /\ published
  /\ Len(InitAccesses) = 6
  /\ Len(ApmWrites) = 2
  /\ ioLog[Len(ioLog)].by # "init"

====
